---- MODULE Spec2Model ----
(***************************************************************************)
(* Model of crop.py: the interactive session of the square image cropper.  *)
(* The state is the module-level state of the script after a successful    *)
(* image load (crop_size, x_start, y_start, cropped_image), the calls made *)
(* to the imaging library (imwrite, the frame drawn) and the console.      *)
(* One action per input event: the mouse callback and one per branch of    *)
(* the key dispatch of the main loop; the argument and image-load checks   *)
(* that precede the session are the actions of SpecStartup.                *)
(***************************************************************************)
EXTENDS Integers, Sequences, FiniteSets, TLC

\* ------------------------------------------------------------------ bounds
\* Number of input events (pointer moves and polls) explored per session.
MaxEvents == 3
\* Millisecond clock readings int(time.time() * 1000) that a write may see.
FirstTime == 9
NumTimes == 3
\* Number of cv2.imwrite calls explored per session.
MaxWrites == 2
\* Number of zoom keys explored per session when only zoom keys are pressed.
MaxZoomEvents == 26

Times == FirstTime .. (FirstTime + NumTimes - 1)

\* Image shapes <<width, height>>: larger than the default square (even and
\* odd sides), smaller than the default square, less than one zoom step above
\* the minimum square, smaller than the minimum square.
Dims == { <<1000, 800>>, <<601, 533>>, <<300, 400>>, <<60, 65>>, <<40, 30>> }

\* Pointer positions delivered by the display layer for a width x height
\* image: two opposite corners, the centre and a position outside the image.
Points(w, h) == { <<0, 0>>, <<w - 1, h - 1>>, <<w \div 2, h \div 2>>, <<w + 7, -3>> }

\* Values returned by cv2.waitKey(1): -1 when no key is pending, else a code.
RawKeys == { -1, 97, 99, 100, 102, 113, 115, 120 }

\* Command lines sys.argv, and the paths cv2.imread can decode.
Argvs == { << "crop.py" >>, << "crop.py", "-h" >>, << "crop.py", "--help" >>,
           << "crop.py", "missing.png" >>, << "crop.py", "image.png" >>,
           << "crop.py", "image.png", "-h" >> }
Readable == { "image.png" }

\* --------------------------------------------------------------- constants
DefaultCropSize == 512
min_crop_size == 50
ZoomStep == 20

Min(a, b) == IF a <= b THEN a ELSE b
Max(a, b) == IF a >= b THEN a ELSE b

VARIABLES
    argv,           \* sys.argv
    image,          \* the raster: the rectangles drawn on the decoded pixels
    pointer,        \* the coordinates of the last pointer event, << >> before
    width,          \* image.shape[1]
    height,         \* image.shape[0]
    crop_size,      \* edge of the selection square
    x_start,        \* left column of the selection
    y_start,        \* top row of the selection
    cropped_image,  \* the last extracted region, Undefined before the first
    frame,          \* rectangle last drawn in the "Image Cropper" window
    writes,         \* the cv2.imwrite calls made so far, in order
    origin,         \* for each imwrite call, the key and the clock reading
    stdout,         \* the lines printed so far
    state,          \* "RUNNING" while the loop runs, "TERMINATED" after
    exc,            \* the uncaught exception that ended the process, if any
    last,           \* the event handled last
    nevents,        \* number of events handled
    budget          \* number of events explored in this session

vars == << argv, image, pointer, width, height, crop_size, x_start, y_start, cropped_image, frame,
           writes, origin, stdout, state, exc, last, nevents, budget >>

\* max_crop_size = min(image.shape[0], image.shape[1])
max_crop_size == Min(height, width)

\* ------------------------------------------------------------ pure helpers
\* The name cropped_image is unbound until key a or key c assigns it.
Undefined == << -1, -1, -1, -1 >>

\* One bound of a Python slice over an axis of length n.
SliceIndex(i, n) == IF i < 0 THEN Max(n + i, 0) ELSE Min(i, n)

\* image[y:y+s, x:x+s]: the rows and columns of the raster the view covers,
\* as <<first row, end row, first column, end column>> (ends exclusive).
Extract(x, y, s) ==
    << SliceIndex(y, height), Max(SliceIndex(y, height), SliceIndex(y + s, height)),
       SliceIndex(x, width),  Max(SliceIndex(x, width),  SliceIndex(x + s, width)) >>

\* The rectangle draw_crop_window draws on a copy of the image.
Rect(x, y, s) == << x, y, x + s, y + s >>

\* draw_crop_window drawing on the image itself instead of a copy.
draw_crop_window_inplace(img, x, y, s) ==
    [ image |-> img \cup { Rect(x, y, s) }, shown |-> img \cup { Rect(x, y, s) } ]

\* draw_crop_window(): the image afterwards and the picture shown, a copy of
\* the image with the rectangle on it.
draw_crop_window(img, x, y, s) ==
    [ image |-> img, shown |-> img \cup { Rect(x, y, s) } ]

\* str(n) for n >= 0, as character codes.
RECURSIVE Digits(_)
Digits(n) == IF n < 10 THEN << 48 + n >> ELSE Digits(n \div 10) \o << 48 + (n % 10) >>

\* "cropped_image" and ".png" as character codes.
BaseName == << 99, 114, 111, 112, 112, 101, 100, 95, 105, 109, 97, 103, 101 >>
Extension == << 46, 112, 110, 103 >>

\* The name built from the clock in seconds instead of milliseconds.
generate_unique_filename_seconds(t) == BaseName \o << 95 >> \o Digits(t \div 1000) \o Extension

\* generate_unique_filename() when the clock reads t milliseconds.
generate_unique_filename(t) == BaseName \o << 95 >> \o Digits(t) \o Extension

\* The square placed with its corner, not its centre, at the pointer.
Centered_corner(p, n) == Max(0, Min(p, n - crop_size))

\* x_start / y_start as update_crop computes them for pointer coordinate p
\* on an axis of length n.
Centered(p, n) == Max(0, Min(p - crop_size \div 2, n - crop_size))

\* ------------------------------------------------------------------- Init
\* The state when the loop is entered, with b events to explore.
Session(b) ==
    /\ budget = b
    /\ argv = << "crop.py", "image.png" >>
    /\ image = { }
    /\ pointer = << >>
    /\ \E d \in Dims : width = d[1] /\ height = d[2]
    /\ crop_size = DefaultCropSize
    /\ x_start = 0
    /\ y_start = 0
    /\ cropped_image = Undefined
    /\ frame = { }
    /\ writes = << >>
    /\ origin = << >>
    /\ stdout = << >>
    /\ state = "RUNNING"
    /\ exc = "none"
    /\ last = "start"
    /\ nevents = 0

Init == Session(MaxEvents)

Running == state = "RUNNING" /\ nevents < budget

\* ---------------------------------------------------------------- actions
\* update_crop with event == EVENT_MOUSEMOVE, followed by draw_crop_window.
MouseMove(px, py) ==
    /\ Running
    /\ x_start' = Centered(px, width)
    /\ y_start' = Centered(py, height)
    /\ pointer' = << px, py >>
    /\ image' = draw_crop_window(image, x_start', y_start', crop_size).image
    /\ frame' = draw_crop_window(image, x_start', y_start', crop_size).shown
    /\ last' = "move"
    /\ nevents' = nevents + 1
    /\ UNCHANGED << argv, budget, width, height, crop_size, cropped_image, writes, origin, stdout, state, exc >>

\* key = cv2.waitKey(1) & 0xFF
Key(raw) == raw % 256

\* The files on disk after the imwrite calls in log: the last successful
\* write under a name decides its content.
Files(log) ==
    { << log[i].name, log[i].img >> : i \in { j \in DOMAIN log :
        /\ log[j].ok
        /\ \A k \in DOMAIN log : (k > j /\ log[k].ok) => log[k].name # log[j].name } }

\* cv2.imwrite(name, img): the call is made; ok tells whether the file was
\* written (imwrite returns False on a filesystem failure, it does not raise).
imwrite(log, name, img, ok) == Append(log, [name |-> name, img |-> img, ok |-> ok])

\* print(f"Cropped image saved as {filename}")
SavedLine(name) == << "Cropped image saved as", name >>

\* The three statements of the branch for key s, on buffer buf, log and out,
\* with the clock reading t and the write succeeding or not (ok): the new
\* << log, out >>.
SaveEffect(buf, log, out, t, ok) ==
    << imwrite(log, generate_unique_filename(t), buf, ok),
       Append(out, SavedLine(generate_unique_filename(t))) >>

\* The first statement of the branches for keys a and c.
PreviewEffect(x, y, s) == Extract(x, y, s)

\* The branch for key c writing the whole image instead of the region.
CropEffect_whole(x, y, s, log, out, t, ok) ==
    << Extract(x, y, s),
       imwrite(log, generate_unique_filename(t), << 0, height, 0, width >>, ok),
       Append(out, SavedLine(generate_unique_filename(t))) >>

\* The branch for key c writing the buffer as it was before the extraction.
CropEffect_stale(x, y, s, log, out, t, ok) ==
    << Extract(x, y, s),
       imwrite(log, generate_unique_filename(t), cropped_image, ok),
       Append(out, SavedLine(generate_unique_filename(t))) >>

\* The branch for key c: the new << buffer, log, out >>.
CropEffect(x, y, s, log, out, t, ok) ==
    << Extract(x, y, s),
       imwrite(log, generate_unique_filename(t), Extract(x, y, s), ok),
       Append(out, SavedLine(generate_unique_filename(t))) >>

\* One iteration of the loop: draw_crop_window, then the branch for the key.
Poll(raw, branch) ==
    /\ Running
    /\ image' = draw_crop_window(image, x_start, y_start, crop_size).image
    /\ frame' = draw_crop_window(image, x_start, y_start, crop_size).shown
    /\ last' = branch
    /\ nevents' = nevents + 1
    /\ UNCHANGED << argv, budget, pointer, width, height >>

\* The zoom-in assignment with max for min, and the zoom-out assignment
\* without its limit.
ZoomInSize_maxmin(s) == Max(s + ZoomStep, max_crop_size)
ZoomOutSize_nolimit(s) == s - ZoomStep

\* The right-hand sides of the assignments of the branches for keys f and d.
ZoomInSize(s) == Min(s + ZoomStep, max_crop_size)

ZoomOutSize(s) == Max(s - ZoomStep, min_crop_size)

\* Key f.
ZoomIn(raw) ==
    /\ Key(raw) = 102
    /\ Poll(raw, "f")
    /\ crop_size' = ZoomInSize(crop_size)
    /\ UNCHANGED << x_start, y_start, cropped_image, writes, origin, stdout, state, exc >>

\* Key d.
ZoomOut(raw) ==
    /\ Key(raw) = 100
    /\ Poll(raw, "d")
    /\ crop_size' = ZoomOutSize(crop_size)
    /\ UNCHANGED << x_start, y_start, cropped_image, writes, origin, stdout, state, exc >>

\* Key a also writing the region to a file named from clock reading 0.
Preview_saving(raw) ==
    /\ Key(raw) = 97
    /\ Poll(raw, "a")
    /\ cropped_image' = PreviewEffect(x_start, y_start, crop_size)
    /\ writes' = imwrite(writes, generate_unique_filename(0),
                         PreviewEffect(x_start, y_start, crop_size), TRUE)
    /\ origin' = Append(origin, [key |-> "a", t |-> 0])
    /\ UNCHANGED << crop_size, x_start, y_start, stdout, state, exc >>

\* Key a.
Preview(raw) ==
    /\ Key(raw) = 97
    /\ Poll(raw, "a")
    /\ cropped_image' = PreviewEffect(x_start, y_start, crop_size)
    /\ UNCHANGED << crop_size, x_start, y_start, writes, origin, stdout, state, exc >>

\* Key s extracting the current selection again instead of writing the buffer.
Save_reextract(raw, t, ok) ==
    /\ Key(raw) = 115
    /\ cropped_image # Undefined
    /\ Len(writes) < MaxWrites
    /\ Poll(raw, "s")
    /\ writes' = SaveEffect(Extract(x_start, y_start, crop_size), writes, stdout, t, ok)[1]
    /\ stdout' = SaveEffect(Extract(x_start, y_start, crop_size), writes, stdout, t, ok)[2]
    /\ origin' = Append(origin, [key |-> "s", t |-> t])
    /\ UNCHANGED << crop_size, x_start, y_start, cropped_image, state, exc >>

\* Key s with cropped_image bound.
Save(raw, t, ok) ==
    /\ Key(raw) = 115
    /\ cropped_image # Undefined
    /\ Len(writes) < MaxWrites
    /\ Poll(raw, "s")
    /\ writes' = SaveEffect(cropped_image, writes, stdout, t, ok)[1]
    /\ stdout' = SaveEffect(cropped_image, writes, stdout, t, ok)[2]
    /\ origin' = Append(origin, [key |-> "s", t |-> t])
    /\ UNCHANGED << crop_size, x_start, y_start, cropped_image, state, exc >>

\* Key s with cropped_image unbound: evaluating the argument of imwrite
\* raises NameError, which nothing catches; the process ends.
SaveUnbound(raw) ==
    /\ Key(raw) = 115
    /\ cropped_image = Undefined
    /\ Poll(raw, "s")
    /\ state' = "TERMINATED"
    /\ exc' = "NameError"
    /\ UNCHANGED << crop_size, x_start, y_start, cropped_image, writes, origin, stdout >>

\* Key c.
Crop(raw, t, ok) ==
    /\ Key(raw) = 99
    /\ Len(writes) < MaxWrites
    /\ Poll(raw, "c")
    /\ cropped_image' = CropEffect(x_start, y_start, crop_size, writes, stdout, t, ok)[1]
    /\ writes' = CropEffect(x_start, y_start, crop_size, writes, stdout, t, ok)[2]
    /\ stdout' = CropEffect(x_start, y_start, crop_size, writes, stdout, t, ok)[3]
    /\ origin' = Append(origin, [key |-> "c", t |-> t])
    /\ UNCHANGED << crop_size, x_start, y_start, state, exc >>

\* Key q: break.
Quit(raw) ==
    /\ Key(raw) = 113
    /\ Poll(raw, "q")
    /\ state' = "TERMINATED"
    /\ UNCHANGED << crop_size, x_start, y_start, cropped_image, writes, origin, stdout, exc >>

\* No key pending, or a key no branch tests for.
Idle(raw) ==
    /\ Key(raw) \notin { 102, 100, 97, 115, 99, 113 }
    /\ Poll(raw, "idle")
    /\ UNCHANGED << crop_size, x_start, y_start, cropped_image, writes, origin, stdout, state, exc >>

Next ==
    \/ \E p \in Points(width, height) : MouseMove(p[1], p[2])
    \/ \E raw \in RawKeys : ZoomIn(raw)
    \/ \E raw \in RawKeys : ZoomOut(raw)
    \/ \E raw \in RawKeys : Preview(raw)
    \/ \E raw \in RawKeys, t \in Times, ok \in BOOLEAN : Save(raw, t, ok)
    \/ \E raw \in RawKeys : SaveUnbound(raw)
    \/ \E raw \in RawKeys, t \in Times, ok \in BOOLEAN : Crop(raw, t, ok)
    \/ \E raw \in RawKeys : Quit(raw)
    \/ \E raw \in RawKeys : Idle(raw)

Spec == Init /\ [][Next]_vars

\* A session in which only zoom keys are pressed.
InitZoom == Session(MaxZoomEvents)

NextZoom ==
    \/ \E raw \in RawKeys : ZoomIn(raw)
    \/ \E raw \in RawKeys : ZoomOut(raw)

SpecZoom == InitZoom /\ [][NextZoom]_vars

\* A session in which only key d is pressed.
NextZoomOut == \E raw \in RawKeys : ZoomOut(raw)

SpecZoomOut == InitZoom /\ [][NextZoomOut]_vars

\* ---------------------------------------------------------------- startup
\* print_usage() and the error line of a failed load.
UsageLine == << "Usage: python script.py <image_path>" >>
ErrorLine(path) == << "Error: Could not load image at", path >>

\* The help test looking for -h only.
HelpRequested_short(args) == IF Len(args) < 2 THEN TRUE ELSE args[2] = "-h"

\* len(sys.argv) < 2 or sys.argv[1] in ['-h', '--help']
HelpRequested(args) == IF Len(args) < 2 THEN TRUE ELSE args[2] \in { "-h", "--help" }

\* cv2.imread(path) is not None
Loads(path) == path \in Readable

\* The exit status of the process once it has ended: sys.exit(1) and an
\* uncaught exception give 1, running off the end of the script gives 0.
ExitStatus == IF exc = "none" THEN 0 ELSE 1

\* The process before the first statement of the script has run.
InitStartup ==
    /\ argv \in Argvs
    /\ budget = MaxEvents
    /\ image = { }
    /\ pointer = << >>
    /\ width = 0 /\ height = 0
    /\ crop_size = 0 /\ x_start = 0 /\ y_start = 0
    /\ cropped_image = Undefined
    /\ frame = { }
    /\ writes = << >>
    /\ origin = << >>
    /\ stdout = << >>
    /\ state = "START"
    /\ exc = "none"
    /\ last = "start"
    /\ nevents = 0

\* The process ends with sys.exit(1) after printing line.
ExitWith(line, event) ==
    /\ stdout' = Append(stdout, line)
    /\ state' = "TERMINATED"
    /\ exc' = "SystemExit(1)"
    /\ last' = event
    /\ UNCHANGED << argv, budget, image, pointer, width, height, crop_size, x_start,
                    y_start, cropped_image, frame, writes, origin, nevents >>

\* No argument or help requested: usage, exit status 1.
StartUsage ==
    /\ state = "START"
    /\ HelpRequested(argv)
    /\ ExitWith(UsageLine, "usage")

\* cv2.imread returns None: error naming the path, exit status 1.
StartLoadFail ==
    /\ state = "START"
    /\ ~HelpRequested(argv)
    /\ ~Loads(argv[2])
    /\ ExitWith(ErrorLine(argv[2]), "loadfail")

\* The image loads with shape d: the initial parameters are set, the window
\* and the mouse callback are created and the loop is entered.
StartLoad(d) ==
    /\ state = "START"
    /\ ~HelpRequested(argv)
    /\ Loads(argv[2])
    /\ width' = d[1] /\ height' = d[2]
    /\ crop_size' = DefaultCropSize
    /\ x_start' = 0 /\ y_start' = 0
    /\ state' = "RUNNING"
    /\ UNCHANGED << argv, budget, image, pointer, cropped_image, frame, writes, origin,
                    stdout, exc, last, nevents >>

NextStartup ==
    \/ StartUsage
    \/ StartLoadFail
    \/ \E d \in Dims : StartLoad(d)
    \/ Next

SpecStartup == InitStartup /\ [][NextStartup]_vars

\* ----------------------------------------------------------------- claims
\* Python's order on strings, on sequences of character codes.
LexLess(a, b) ==
    \E k \in 1 .. (Min(Len(a), Len(b)) + 1) :
        /\ \A i \in 1 .. (k - 1) : a[i] = b[i]
        /\ \/ k <= Len(a) /\ k <= Len(b) /\ a[k] < b[k]
           \/ k = Len(a) + 1 /\ k <= Len(b)

\* The selection square lies inside the image.
SelectionInside ==
    /\ 0 <= x_start /\ x_start <= width - crop_size
    /\ 0 <= y_start /\ y_start <= height - crop_size

\* The last imwrite call, when there is one.
LastWrite == writes[Len(writes)]

\* C1: in every state of the session the selection satisfies
\* 0 <= x <= width - size and 0 <= y <= height - size.
C1_SelectionAlwaysInside == SelectionInside

\* C2: right after a pointer move the selection satisfies
\* 0 <= x <= width - size and 0 <= y <= height - size.
C2_InsideAfterPointerMove == (last = "move") => SelectionInside

\* C3: after every zoom-in and zoom-out, min_size <= size <= max_size.
C3_SizeWithinBounds ==
    (last \in { "f", "d" }) => (min_crop_size <= crop_size /\ crop_size <= max_crop_size)

\* C4: key s before any preview or crop reports NoPreviewError, writes no
\* file and leaves the session running.
C4_SaveWithoutPreviewGuarded ==
    (last = "s" /\ cropped_image = Undefined) =>
        (exc = "NoPreviewError" /\ state = "RUNNING" /\ writes = << >>)

\* C5: every key c makes exactly one imwrite call, whose image is the
\* region image[y:y+size, x:x+size] of the selection in force at the key
\* press; the buffer holds that region, and when the write succeeds the
\* file of that name holds it.
C5_CropWritesSelection ==
    [][ (last' = "c" /\ nevents' = nevents + 1) =>
            /\ Len(writes') = Len(writes) + 1
            /\ SubSeq(writes', 1, Len(writes)) = writes
            /\ writes'[Len(writes')].img = Extract(x_start, y_start, crop_size)
            /\ writes'[Len(writes')].name = generate_unique_filename(origin'[Len(origin')].t)
            /\ cropped_image' = Extract(x_start, y_start, crop_size)
            /\ << x_start', y_start', crop_size' >> = << x_start, y_start, crop_size >>
            /\ writes'[Len(writes')].ok =>
                  << writes'[Len(writes')].name, Extract(x_start, y_start, crop_size) >>
                      \in Files(writes') ]_vars

C5_Witness ==
    /\ last = "c" /\ x_start > 0 /\ y_start > 0 /\ crop_size # DefaultCropSize
    /\ LastWrite.ok
    /\ LastWrite.img = Extract(x_start, y_start, crop_size)

\* Pairs of key c writes, the earlier at the smaller clock reading.
CropPairs ==
    { p \in (DOMAIN writes) \X (DOMAIN writes) :
        /\ p[1] < p[2]
        /\ origin[p[1]].key = "c" /\ origin[p[2]].key = "c"
        /\ origin[p[1]].t < origin[p[2]].t }

\* The names of the files on disk.
FileNames == { f[1] : f \in Files(writes) }

\* The two writes of pair p have different names and, when both succeed,
\* both names are files on disk.
DistinctFiles(p) ==
    /\ writes[p[1]].name # writes[p[2]].name
    /\ (writes[p[1]].ok /\ writes[p[2]].ok) =>
          { writes[p[1]].name, writes[p[2]].name } \subseteq FileNames

\* C6 as stated: two key c writes at clock readings t1 < t2 have distinct
\* names, and the names are ordered as t1 and t2 are.
C6_NamesOrderedAsTimes ==
    \A p \in CropPairs :
        DistinctFiles(p) /\ LexLess(writes[p[1]].name, writes[p[2]].name)

\* C6 as amended: two key c writes at clock readings t1 < t2 have distinct
\* names, and the names are ordered as t1 and t2 are when t1 and t2 have the
\* same number of decimal digits.
C6_NamesOrderedWhenSameLength ==
    \A p \in CropPairs :
        /\ DistinctFiles(p)
        /\ writes[p[1]].name = generate_unique_filename(origin[p[1]].t)
        /\ writes[p[2]].name = generate_unique_filename(origin[p[2]].t)
        /\ (Len(Digits(origin[p[1]].t)) = Len(Digits(origin[p[2]].t))) =>
              LexLess(writes[p[1]].name, writes[p[2]].name)

C6_Witness ==
    \E p \in CropPairs :
        /\ writes[p[1]].ok /\ writes[p[2]].ok
        /\ Len(Digits(origin[p[1]].t)) = Len(Digits(origin[p[2]].t))
        /\ Cardinality(Files(writes)) = 2

\* The last key was s or c and its imwrite call failed.
WriteFailed == last \in { "s", "c" } /\ writes # << >> /\ ~LastWrite.ok

\* The number of "Cropped image saved as" lines printed.
SavedLines == Cardinality({ i \in DOMAIN stdout : stdout[i][1] = "Cropped image saved as" })

\* C7: when the write of key s or key c fails, no success line is printed
\* for it and the session keeps running.
C7_WriteFailureReported ==
    WriteFailed =>
        /\ state = "RUNNING"
        /\ SavedLines = Cardinality({ i \in DOMAIN writes : writes[i].ok })

\* C8: key q is the only way the session leaves RUNNING.
C8_OnlyQuitTerminates == (state = "TERMINATED") => (last = "q")

\* C9: from every running state, for every clock reading and write outcome,
\* key c gives the buffer, imwrite calls and printed lines that key a
\* followed by key s gives; neither changes the selection.
C9_CropIsPreviewThenSave ==
    (state = "RUNNING") =>
        \A t \in Times, ok \in BOOLEAN :
            CropEffect(x_start, y_start, crop_size, writes, stdout, t, ok)
              = << PreviewEffect(x_start, y_start, crop_size) >>
                \o SaveEffect(PreviewEffect(x_start, y_start, crop_size), writes, stdout, t, ok)

C9_Witness ==
    /\ last = "c" /\ x_start > 0 /\ Len(writes) = 2
    /\ cropped_image = LastWrite.img
    /\ writes[1].img # writes[2].img

\* C10: only key a and key c change the buffer, each to the region of the
\* selection at that key press, so pointer moves and zooms leave it as it
\* is, and key s writes the buffer, whatever the selection is by then.
C10_BufferIsSnapshot ==
    [][ /\ (last' \notin { "a", "c" }) => (cropped_image' = cropped_image)
        /\ (last' \in { "a", "c" } /\ nevents' = nevents + 1) =>
              cropped_image' = Extract(x_start, y_start, crop_size)
        /\ (last' = "s" /\ Len(writes') = Len(writes) + 1) =>
              writes'[Len(writes')].img = cropped_image ]_vars

C10_Witness ==
    /\ last = "s" /\ writes # << >>
    /\ LastWrite.img = cropped_image
    /\ LastWrite.img # Extract(x_start, y_start, crop_size)

\* C11: with no argument or a first argument -h or --help the process prints
\* the usage and exits with status 1 before any event is handled; with a
\* path that does not load it prints an error naming the path and exits
\* with status 1; the loop runs only on a loaded image; after key q the
\* process exits with status 0.
C11_StartupOutcomes ==
    /\ (state # "START" /\ (Len(argv) < 2 \/ argv[2] = "-h" \/ argv[2] = "--help")) =>
          /\ state = "TERMINATED" /\ ExitStatus = 1
          /\ stdout = << UsageLine >> /\ nevents = 0
    /\ (state # "START" /\ Len(argv) >= 2 /\ argv[2] \in { "missing.png" }) =>
          /\ state = "TERMINATED" /\ ExitStatus = 1
          /\ stdout = << << "Error: Could not load image at", argv[2] >> >> /\ nevents = 0
    /\ (state = "RUNNING" \/ nevents > 0) =>
          /\ Len(argv) >= 2 /\ argv[2] = "image.png"
          /\ << width, height >> \in Dims
    /\ (state = "TERMINATED" /\ last = "q") => ExitStatus = 0

C11_Witness ==
    /\ state = "TERMINATED" /\ last = "usage" /\ ExitStatus = 1
    /\ argv = << "crop.py", "--help" >>

\* clamp(v, lo, hi): v constrained to [lo, hi], the lower bound winning when
\* the interval is empty.
Clamp(v, lo, hi) == Max(lo, Min(v, hi))

\* C12: a pointer move to (px, py) sets x = clamp(px - size/2, 0, width - size)
\* and y = clamp(py - size/2, 0, height - size), the halving rounding down,
\* and leaves size unchanged; on a 1000x800 image at size 512 the pointer
\* (0,0) gives (0,0,512) and the pointer (999,799) gives (488,288,512).
C12_PointerMoveCentres ==
    [][ (last' = "move" /\ nevents' = nevents + 1) =>
            /\ crop_size' = crop_size
            /\ x_start' = Clamp(pointer'[1] - crop_size \div 2, 0, width - crop_size)
            /\ y_start' = Clamp(pointer'[2] - crop_size \div 2, 0, height - crop_size)
            /\ (width = 1000 /\ height = 800 /\ crop_size = 512) =>
                  /\ (pointer' = << 0, 0 >>) =>
                        << x_start', y_start', crop_size' >> = << 0, 0, 512 >>
                  /\ (pointer' = << 999, 799 >>) =>
                        << x_start', y_start', crop_size' >> = << 488, 288, 512 >> ]_vars

C12_Witness ==
    /\ last = "move" /\ width = 1000 /\ height = 800
    /\ pointer = << 999, 799 >>
    /\ << x_start, y_start, crop_size >> = << 488, 288, 512 >>

\* A step that leaves the selection as it is and raises nothing.
SelectionKept ==
    /\ << x_start', y_start', crop_size' >> = << x_start, y_start, crop_size >>
    /\ state' = "RUNNING" /\ exc' = "none"

\* C13: key f at size = max_size and key d at size = min_size leave size, x
\* and y unchanged and raise no error.
C13_ZoomAtLimitIsNoOp ==
    [][ (nevents' = nevents + 1) =>
            /\ (last' = "f" /\ crop_size = max_crop_size) => SelectionKept
            /\ (last' = "d" /\ crop_size = min_crop_size) => SelectionKept ]_vars

C13_Witness ==
    /\ last = "d" /\ crop_size = min_crop_size /\ nevents = 25
    /\ max_crop_size >= DefaultCropSize

\* C14: after k key d presses from the start the size is max(512 - 20k, 50):
\* 112 after 20, 50 from the 24th on.
C14_ZoomOutClosedForm ==
    /\ crop_size = Max(512 - 20 * nevents, 50)
    /\ (nevents = 20) => (crop_size = 112)
    /\ (nevents >= 24) => (crop_size = 50)

C14_Witness == nevents = 25 /\ last = "d" /\ crop_size = 50

\* C19: key f then key d restores the size whenever size + 20 <= max_size,
\* key d then key f restores it whenever size - 20 >= min_size, and a round
\* trip that hits a limit does not restore it.
C19_ZoomRoundTrips ==
    /\ (crop_size + 20 <= max_crop_size) => (ZoomOutSize(ZoomInSize(crop_size)) = crop_size)
    /\ (crop_size - 20 >= min_crop_size) => (ZoomInSize(ZoomOutSize(crop_size)) = crop_size)
    /\ (crop_size + 20 > max_crop_size) => (ZoomOutSize(ZoomInSize(crop_size)) # crop_size)
    /\ (crop_size - 20 < min_crop_size) => (ZoomInSize(ZoomOutSize(crop_size)) # crop_size)

\* C15: the raster holds the pixels loaded at startup after every event; the
\* picture shown is a copy of it with one selection rectangle on it.
C15_RasterNeverMutated ==
    /\ image = { }
    /\ (nevents > 0) => (Cardinality(frame) = 1)

C15_Witness ==
    /\ last = "move" /\ x_start > 0 /\ frame = { Rect(x_start, y_start, crop_size) }
    /\ cropped_image # Undefined /\ writes # << >>
    /\ image = { }

\* C16: for every image shape the initial state has min_size <= max_size
\* and the selection (0, 0, 512) with min_size <= size <= max_size,
\* 0 <= x <= width - size and 0 <= y <= height - size.
C16_InitialStateWithinBounds ==
    (state = "RUNNING" /\ nevents = 0) =>
        /\ min_crop_size <= max_crop_size
        /\ << x_start, y_start, crop_size >> = << 0, 0, 512 >>
        /\ min_crop_size <= crop_size /\ crop_size <= max_crop_size
        /\ SelectionInside

\* C17: every region extracted by key a or key c is the full square of
\* size x size pixels at (x, y), inside the image.
C17_ExtractedRegionIsFullSquare ==
    (last \in { "a", "c" }) =>
        /\ cropped_image = << y_start, y_start + crop_size, x_start, x_start + crop_size >>
        /\ x_start + crop_size <= width
        /\ y_start + crop_size <= height

\* C18: only key s and key c add an imwrite call; a poll with no key or an
\* unbound key leaves x, y, size and the buffer unchanged; keys a, s and c
\* leave x, y and size unchanged.
C18_FrameOfEachEvent ==
    [][ /\ (writes' # writes) => (nevents' = nevents + 1 /\ last' \in { "s", "c" })
        /\ (nevents' = nevents + 1 /\ last' = "idle") =>
              << x_start', y_start', crop_size', cropped_image' >>
                  = << x_start, y_start, crop_size, cropped_image >>
        /\ (nevents' = nevents + 1 /\ last' \in { "a", "s", "c" }) =>
              << x_start', y_start', crop_size' >> = << x_start, y_start, crop_size >> ]_vars

C18_Witness ==
    /\ last = "idle" /\ x_start > 0 /\ cropped_image # Undefined
    /\ Len(writes) = 1 /\ Cardinality(Files(writes)) = 1
====
